---- MODULE Spec2Model ----
(***************************************************************************)
(* Model of lib/resource-listing.js: the converter of a Swagger 1.x        *)
(* resource listing into a RAML object.                                    *)
(*                                                                         *)
(* JavaScript values are tagged records.  A string is a sequence of        *)
(* tokens, so that '+' is \o and '' is <<>>.  An object is the sequence of *)
(* its <<key, value>> pairs in insertion order, so that Object.keys is the *)
(* sequence of first components and a key holding undefined differs from   *)
(* a key that is not there.  A TypeError is the completion value Throw.    *)
(***************************************************************************)
EXTENDS Integers, Sequences, FiniteSets, TLC

VARIABLES resource, pc, ramlObject

vars == <<resource, pc, ramlObject>>

(***************************************************************************)
(* JavaScript values                                                       *)
(***************************************************************************)
Undef == [t |-> "undefined"]

Null == [t |-> "null"]

Str(s) == [t |-> "string", s |-> s]

Lit(tok) == Str(<<tok>>)

Arr(xs) == [t |-> "array", xs |-> xs]

Obj(kv) == [t |-> "object", kv |-> kv]

Throw == [t |-> "throw"]

\* ToBoolean on the values the model holds.
Truthy(v) ==
  ~ (\/ v.t \in {"undefined", "null"}
     \/ (v.t = "string" /\ v.s = <<>>))

\* Reading a property of undefined or null is a TypeError.
Readable(v) == v.t \notin {"undefined", "null"}

HasKey(o, k) == o.t = "object" /\ \E i \in 1..Len(o.kv) : o.kv[i][1] = k

\* o[k] of a readable value; a missing key reads as undefined.
Get(o, k) ==
  IF HasKey(o, k)
    THEN o.kv[CHOOSE i \in 1..Len(o.kv) : o.kv[i][1] = k][2]
    ELSE Undef

\* Object.keys(o)
Keys(o) == [i \in 1..Len(o.kv) |-> o.kv[i][1]]

\* o[k] = v: an existing key keeps its place, a new key goes last.
Set(o, k, v) ==
  IF HasKey(o, k)
    THEN Obj([i \in 1..Len(o.kv) |->
               IF o.kv[i][1] = k THEN <<k, v>> ELSE o.kv[i]])
    ELSE Obj(Append(o.kv, <<k, v>>))

\* ToString of a value used as an operand of '+'.
ToStr(v) ==
  CASE v.t = "string"    -> v.s
    [] v.t = "undefined" -> <<"undefined">>
    [] v.t = "null"      -> <<"null">>

\* ToPropertyKey of a value used as a computed member name.
PropertyKey(v) ==
  CASE v.t = "string" /\ Len(v.s) = 1 -> v.s[1]
    [] v.t = "string" /\ v.s = <<>>   -> ""
    [] v.t = "undefined"              -> "undefined"
    [] v.t = "null"                   -> "null"

\* Array.prototype.join on an array of strings.
RECURSIVE Join(_, _)
Join(lines, sep) ==
  IF lines = <<>> THEN <<>>
  ELSE IF Len(lines) = 1 THEN lines[1].s
  ELSE lines[1].s \o sep \o Join(Tail(lines), sep)

(***************************************************************************)
(* Static tables                                                           *)
(***************************************************************************)
DOCUMENTATION_NAME_MAP ==
  Obj(<< <<"description",       Lit("Description")>>,
         <<"termsOfServiceUrl", Lit("Terms of Service URL")>>,
         <<"contact",           Lit("Contact")>>,
         <<"license",           Lit("License")>>,
         <<"licenseUrl",        Lit("License URL")>> >>)

GRANT_TYPE_MAP ==
  Obj(<< <<"implicit",           Lit("token")>>,
         <<"authorization_code", Lit("code")>> >>)

API_KEY_PASS_AS_MAP ==
  Obj(<< <<"header", Lit("headers")>>,
         <<"query",  Lit("queryParameters")>> >>)

(***************************************************************************)
(* convertInfo: title and documentation                                    *)
(***************************************************************************)
\* convertInfo without its early return: the title is assigned even when
\* info is absent.
convertInfo_NoEarlyReturn(info, raml) ==
  LET kept == SelectSeq(Keys(DOCUMENTATION_NAME_MAP),
                        LAMBDA key : Truthy(Get(info, key)))
      documentation ==
        Arr([i \in 1..Len(kept) |->
              Obj(<< <<"title",   Get(DOCUMENTATION_NAME_MAP, kept[i])>>,
                     <<"content", Get(info, kept[i])>> >>)])
      titled == Set(raml, "title", Get(info, "title"))
  IN  IF Len(kept) > 0
        THEN Set(titled, "documentation", documentation)
        ELSE titled

\* convertInfo scanning the keys of info instead of the keys of the table.
convertInfo_InfoOrder(info, raml) ==
  IF ~ Truthy(info) THEN raml
  ELSE
    LET kept == SelectSeq(Keys(info),
                  LAMBDA key : /\ HasKey(DOCUMENTATION_NAME_MAP, key)
                               /\ Truthy(Get(info, key)))
        documentation ==
          Arr([i \in 1..Len(kept) |->
                Obj(<< <<"title",   Get(DOCUMENTATION_NAME_MAP, kept[i])>>,
                       <<"content", Get(info, kept[i])>> >>)])
        titled == Set(raml, "title", Get(info, "title"))
    IN  IF Len(kept) > 0
          THEN Set(titled, "documentation", documentation)
          ELSE titled

convertInfo(info, raml) ==
  IF ~ Truthy(info) THEN raml
  ELSE
    LET kept == SelectSeq(Keys(DOCUMENTATION_NAME_MAP),
                          LAMBDA key : Truthy(Get(info, key)))
        documentation ==
          Arr([i \in 1..Len(kept) |->
                Obj(<< <<"title",   Get(DOCUMENTATION_NAME_MAP, kept[i])>>,
                       <<"content", Get(info, kept[i])>> >>)])
        titled == Set(raml, "title", Get(info, "title"))
    IN  IF Len(kept) > 0
          THEN Set(titled, "documentation", documentation)
          ELSE titled

(***************************************************************************)
(* convertApis: resources                                                  *)
(***************************************************************************)
convertApis(apis, raml) ==
  IF ~ Truthy(apis) THEN raml
  ELSE IF apis.t # "array" THEN Throw
  ELSE IF \E i \in 1..Len(apis.xs) : ~ Readable(apis.xs[i]) THEN Throw
  ELSE Set(raml, "resources",
           Arr([i \in 1..Len(apis.xs) |->
                 Obj(<< <<"relativeUri",  Get(apis.xs[i], "path")>>,
                        <<"description", Get(apis.xs[i], "description")>> >>)]))

(***************************************************************************)
(* convertOAuth2, statement by statement.  st is the pair of the locals    *)
(* authSettings and description.                                           *)
(***************************************************************************)
oauth2Init ==
  [settings    |-> Obj(<< <<"authorizationGrants", Arr(<<>>)>> >>),
   description |-> <<>>]

\* '* ' + name + ': ' + scope.description
scopeDescription(scope) ==
  Str(<<"* ">> \o ToStr(Get(scope, "scope")) \o <<": ">>
        \o ToStr(Get(scope, "description")))

\* oauth2Scopes listing a line for every scope, described or not.
oauth2Scopes_EveryScope(scopes, st) ==
  IF ~ Truthy(scopes) THEN st
  ELSE IF scopes.t = "string" THEN Throw
  ELSE IF scopes.t # "array" THEN st
  ELSE IF Len(scopes.xs) = 0 THEN st
  ELSE IF \E i \in 1..Len(scopes.xs) : ~ Readable(scopes.xs[i]) THEN Throw
  ELSE
    LET scopeDescriptions ==
          [i \in 1..Len(scopes.xs) |-> scopeDescription(scopes.xs[i])]
        names == Arr([i \in 1..Len(scopes.xs) |-> Get(scopes.xs[i], "scope")])
    IN  [settings    |-> Set(st.settings, "scopes", names),
         description |->
           st.description
             \o << Lit("Available scopes: "),
                   Str(Join(scopeDescriptions, <<"\n">>)) >>]

oauth2Scopes(scopes, st) ==
  IF ~ Truthy(scopes) THEN st
  ELSE IF scopes.t = "string" THEN Throw
  ELSE IF scopes.t # "array" THEN st
  ELSE IF Len(scopes.xs) = 0 THEN st
  ELSE IF \E i \in 1..Len(scopes.xs) : ~ Readable(scopes.xs[i]) THEN Throw
  ELSE
    LET described == SelectSeq(scopes.xs,
                       LAMBDA scope : Truthy(Get(scope, "description")))
        scopeDescriptions ==
          [i \in 1..Len(described) |-> scopeDescription(described[i])]
        names == Arr([i \in 1..Len(scopes.xs) |-> Get(scopes.xs[i], "scope")])
    IN  [settings    |-> Set(st.settings, "scopes", names),
         description |->
           IF Len(scopeDescriptions) > 0
             THEN st.description
                    \o << Lit("Available scopes: "),
                          Str(Join(scopeDescriptions, <<"\n">>)) >>
             ELSE st.description]

\* oauth2Grants leaving out the grant types the table does not know.
oauth2Grants_KnownOnly(grantTypes, st) ==
  LET known == SelectSeq(Keys(grantTypes),
                         LAMBDA grantType : HasKey(GRANT_TYPE_MAP, grantType))
  IN  [st EXCEPT !.settings =
         Set(@, "authorizationGrants",
             Arr([i \in 1..Len(known) |-> Get(GRANT_TYPE_MAP, known[i])]))]

oauth2Grants(grantTypes, st) ==
  [st EXCEPT !.settings =
     Set(@, "authorizationGrants",
         Arr([i \in 1..Len(Keys(grantTypes)) |->
               Get(GRANT_TYPE_MAP, Keys(grantTypes)[i])]))]

oauth2Implicit(implicit, st) ==
  IF ~ Truthy(implicit) THEN st
  ELSE
    LET loginEndpoint == Get(implicit, "loginEndpoint")
        tokenName     == Get(implicit, "tokenName")
        uri == IF Truthy(loginEndpoint) /\ Truthy(Get(loginEndpoint, "url"))
                 THEN Set(st.settings, "authorizationUri",
                          Get(loginEndpoint, "url"))
                 ELSE st.settings
    IN  [settings    |-> uri,
         description |->
           IF Truthy(tokenName) /\ tokenName # Lit("access_token")
             THEN Append(st.description,
                    Str(<<"The token grant uses \"">> \o ToStr(tokenName)
                          \o <<"\" as the token name.">>))
             ELSE st.description]

\* One explanatory line of the code grant, when the name is set and is not
\* the default.
codeGrantLine(name, default, rest, lines) ==
  IF Truthy(name) /\ name # Lit(default)
    THEN Append(lines,
           Str(<<"The code grant uses \"">> \o ToStr(name) \o <<rest>>))
    ELSE lines

\* oauth2AuthCode taking access_token, the default of the implicit grant, as
\* the default token name of the code grant.
oauth2AuthCode_AccessToken(authCode, st) ==
  IF ~ Truthy(authCode) THEN st
  ELSE
    LET tokenEndpoint        == Get(authCode, "tokenEndpoint")
        tokenRequestEndpoint == Get(authCode, "tokenRequestEndpoint")
    IN  IF ~ Readable(tokenRequestEndpoint) \/ ~ Readable(tokenEndpoint)
          THEN Throw
          ELSE
            LET clientIdName     == Get(tokenRequestEndpoint, "clientIdName")
                clientSecretName == Get(tokenRequestEndpoint, "clientSecretName")
                tokenName        == Get(tokenEndpoint, "tokenName")
            IN  [settings    |->
                   Set(Set(st.settings, "accessTokenUri",
                           Get(tokenEndpoint, "url")),
                       "authorizationUri", Get(tokenRequestEndpoint, "url")),
                 description |->
                   codeGrantLine(tokenName, "access_token",
                     "\" as the parameter for passing the authorization token.",
                     codeGrantLine(clientSecretName, "client_secret",
                       "\" as the parameter for passing the client secret.",
                       codeGrantLine(clientIdName, "client_id",
                         "\" as the parameter for passing the client id.",
                         st.description)))]

oauth2AuthCode(authCode, st) ==
  IF ~ Truthy(authCode) THEN st
  ELSE
    LET tokenEndpoint        == Get(authCode, "tokenEndpoint")
        tokenRequestEndpoint == Get(authCode, "tokenRequestEndpoint")
    IN  IF ~ Readable(tokenRequestEndpoint) \/ ~ Readable(tokenEndpoint)
          THEN Throw
          ELSE
            LET clientIdName     == Get(tokenRequestEndpoint, "clientIdName")
                clientSecretName == Get(tokenRequestEndpoint, "clientSecretName")
                tokenName        == Get(tokenEndpoint, "tokenName")
            IN  [settings    |->
                   Set(Set(st.settings, "accessTokenUri",
                           Get(tokenEndpoint, "url")),
                       "authorizationUri", Get(tokenRequestEndpoint, "url")),
                 description |->
                   codeGrantLine(tokenName, "access_code",
                     "\" as the parameter for passing the authorization token.",
                     codeGrantLine(clientSecretName, "client_secret",
                       "\" as the parameter for passing the client secret.",
                       codeGrantLine(clientIdName, "client_id",
                         "\" as the parameter for passing the client id.",
                         st.description)))]

oauth2Result(st) ==
  LET ramlAuth == Obj(<< <<"type",     Lit("OAuth 2.0")>>,
                         <<"settings", st.settings>> >>)
  IN  IF Len(st.description) > 0
        THEN Set(ramlAuth, "description",
                 Str(Join(st.description, <<"\n\n">>)))
        ELSE ramlAuth

\* convertOAuth2 with the code grant handled before the implicit grant.
convertOAuth2_CodeGrantFirst(authorization) ==
  LET grantTypes == Get(authorization, "grantTypes")
  IN  IF ~ Readable(grantTypes) THEN Throw
      ELSE
        LET implicit == Get(grantTypes, "implicit")
            authCode == Get(grantTypes, "authorization_code")
            s1 == oauth2Scopes(Get(authorization, "scopes"), oauth2Init)
            s2 == IF s1 = Throw THEN Throw ELSE oauth2Grants(grantTypes, s1)
            s3 == IF s2 = Throw THEN Throw ELSE oauth2AuthCode(authCode, s2)
            s4 == IF s3 = Throw THEN Throw ELSE oauth2Implicit(implicit, s3)
        IN  IF s4 = Throw THEN Throw ELSE oauth2Result(s4)

convertOAuth2(authorization) ==
  LET grantTypes == Get(authorization, "grantTypes")
  IN  IF ~ Readable(grantTypes) THEN Throw
      ELSE
        LET implicit == Get(grantTypes, "implicit")
            authCode == Get(grantTypes, "authorization_code")
            s1 == oauth2Scopes(Get(authorization, "scopes"), oauth2Init)
            s2 == IF s1 = Throw THEN Throw ELSE oauth2Grants(grantTypes, s1)
            s3 == IF s2 = Throw THEN Throw ELSE oauth2Implicit(implicit, s2)
            s4 == IF s3 = Throw THEN Throw ELSE oauth2AuthCode(authCode, s3)
        IN  IF s4 = Throw THEN Throw ELSE oauth2Result(s4)

(***************************************************************************)
(* convertApiKey and convertBasicAuth                                      *)
(***************************************************************************)
convertApiKey(authorization) ==
  LET describedBy == Get(API_KEY_PASS_AS_MAP,
                         PropertyKey(Get(authorization, "passAs")))
      parameter ==
        Obj(<< <<"type", Lit("string")>>,
               <<"description",
                 Lit("Used to send a valid API key for authentication.")>> >>)
  IN  Obj(<< <<"type", Lit("x-api-key")>>,
             <<"describedBy",
               IF Truthy(describedBy)
                 THEN Obj(<< <<PropertyKey(describedBy),
                               Obj(<< <<PropertyKey(
                                          Get(authorization, "keyname")),
                                        parameter>> >>)>> >>)
                 ELSE Obj(<<>>)>> >>)

convertBasicAuth(authorization) ==
  Obj(<< <<"type", Lit("Basic Authentication")>> >>)

(***************************************************************************)
(* convertAuthorization and convertAuthorizations                          *)
(***************************************************************************)
convertAuthorization(authorization) ==
  IF ~ Readable(authorization) THEN Throw
  ELSE IF Get(authorization, "type") = Lit("oauth2")
    THEN convertOAuth2(authorization)
  ELSE IF Get(authorization, "type") = Lit("apiKey")
    THEN convertApiKey(authorization)
  ELSE IF Get(authorization, "type") = Lit("basicAuth")
    THEN convertBasicAuth(authorization)
  ELSE Undef

\* convertAuthorizations dropping the entries no converter took.
convertAuthorizations_DropUnknown(authorizations, raml) ==
  IF ~ Truthy(authorizations) THEN raml
  ELSE
    LET keys    == Keys(authorizations)
        schemes == [i \in 1..Len(keys) |->
                     convertAuthorization(Get(authorizations, keys[i]))]
        taken   == SelectSeq(keys, LAMBDA key :
                     convertAuthorization(Get(authorizations, key)) # Undef)
    IN  IF \E i \in 1..Len(keys) : schemes[i] = Throw THEN Throw
        ELSE Set(raml, "securitySchemes",
                 Arr([i \in 1..Len(taken) |->
                       Obj(<< <<taken[i],
                                convertAuthorization(
                                  Get(authorizations, taken[i]))>> >>)]))

convertAuthorizations(authorizations, raml) ==
  IF ~ Truthy(authorizations) THEN raml
  ELSE
    LET keys    == Keys(authorizations)
        schemes == [i \in 1..Len(keys) |->
                     convertAuthorization(Get(authorizations, keys[i]))]
    IN  IF \E i \in 1..Len(keys) : schemes[i] = Throw THEN Throw
        ELSE Set(raml, "securitySchemes",
                 Arr([i \in 1..Len(keys) |->
                       Obj(<< <<keys[i], schemes[i]>> >>)]))

(***************************************************************************)
(* converter: the exported function                                        *)
(***************************************************************************)
converter(res) ==
  LET r1 == convertInfo(Get(res, "info"), Obj(<<>>))
      r2 == convertApis(Get(res, "apis"), r1)
      r3 == IF r2 = Throw THEN Throw
            ELSE convertAuthorizations(Get(res, "authorizations"), r2)
  IN  IF r3 = Throw THEN Throw
      ELSE IF Truthy(Get(res, "apiVersion"))
        THEN Set(r3, "version", Get(res, "apiVersion"))
        ELSE r3

(***************************************************************************)
(* Source documents the converter is applied to                            *)
(***************************************************************************)
MaxInfoKeys == 2

MaxApis == 2

MaxAuths == 2

MaxScopes == 2

MaxGrants == 2

\* Marks a key left out of an object literal.
Absent == [t |-> "absent"]

MkObj(kv) == Obj(SelectSeq(kv, LAMBDA p : p[2] # Absent))

\* The sequences of at most n distinct elements of S.
DistinctSeqs(S, n) ==
  {q \in UNION {[1..m -> S] : m \in 0..n} :
     \A i, j \in 1..Len(q) : i # j => q[i] # q[j]}

InfoKeys ==
  {"title", "description", "termsOfServiceUrl", "contact", "license",
   "licenseUrl"}

\* info objects: any keys in any order, each set to its name or to ''.
InfoObjects ==
  UNION {{Obj([i \in 1..Len(ks) |->
                <<ks[i], IF f[i] THEN Lit(ks[i]) ELSE Str(<<>>)>>]) :
            f \in [1..Len(ks) -> BOOLEAN]} :
         ks \in DistinctSeqs(InfoKeys, MaxInfoKeys)}

InfoInputs == {Absent, Null} \cup InfoObjects

FewInfos ==
  {Absent,
   Obj(<< <<"license", Lit("MIT")>>, <<"title", Lit("Pets")>>,
          <<"description", Lit("A pet store")>> >>)}

ApiInputs ==
  {Obj(<< <<"path", Lit("/pets")>> >>),
   Obj(<< <<"path", Lit("/users")>>, <<"description", Lit("Users")>> >>)}

ApisInputs ==
  {Absent} \cup {Arr(q) : q \in UNION {[1..m -> ApiInputs] : m \in 0..MaxApis}}

FewApis ==
  {Absent, Arr(<< Obj(<< <<"path", Lit("/pets")>> >>) >>)}

VersionInputs == {Absent, Str(<<>>), Lit("1.0")}

ScopeInputs ==
  {Obj(<< <<"scope", Lit("read")>> >>),
   Obj(<< <<"scope", Lit("write")>>, <<"description", Lit("Write access")>> >>),
   Obj(<< <<"scope", Lit("admin")>>, <<"description", Str(<<>>)>> >>)}

ScopesInputs ==
  {Absent} \cup
  {Arr(q) : q \in UNION {[1..m -> ScopeInputs] : m \in 0..MaxScopes}}

FewScopes ==
  {Absent,
   Arr(<< Obj(<< <<"scope", Lit("read")>> >>),
          Obj(<< <<"scope", Lit("write")>>,
                 <<"description", Lit("Write access")>> >>) >>)}

ImplicitInputs ==
  {Null} \cup
  {MkObj(<< <<"loginEndpoint", le>>, <<"tokenName", tn>> >>) :
     le \in {Absent, Obj(<<>>),
             Obj(<< <<"url", Lit("http://login")>> >>)},
     tn \in {Absent, Lit("access_token"), Lit("tok")}}

TokenEndpointInputs ==
  {Absent} \cup
  {MkObj(<< <<"url", Lit("http://token")>>, <<"tokenName", tn>> >>) :
     tn \in {Absent, Lit("access_code"), Lit("access_token")}}

TokenRequestEndpointInputs ==
  {Absent, Obj(<<>>)} \cup
  {MkObj(<< <<"url", Lit("http://authorize")>>,
            <<"clientIdName", cid>>, <<"clientSecretName", cs>> >>) :
     cid \in {Absent, Str(<<>>), Lit("client_id"), Lit("app_id")},
     cs  \in {Absent, Lit("client_secret"), Lit("app_secret")}}

AuthCodeInputs ==
  {MkObj(<< <<"tokenEndpoint", te>>, <<"tokenRequestEndpoint", tre>> >>) :
     te \in TokenEndpointInputs, tre \in TokenRequestEndpointInputs}

GrantTypeIds == {"implicit", "authorization_code", "password"}

GrantConfigs(id) ==
  CASE id = "implicit"           -> ImplicitInputs
    [] id = "authorization_code" -> AuthCodeInputs
    [] OTHER                     -> {Obj(<<>>)}

\* The <<key, config>> sequences over the grant types ks, in that order.
RECURSIVE GrantEntries(_)
GrantEntries(ks) ==
  IF ks = <<>> THEN {<<>>}
  ELSE {<< <<ks[1], c>> >> \o rest :
          c \in GrantConfigs(ks[1]), rest \in GrantEntries(Tail(ks))}

\* grantTypes objects: any grant types in any order, each with any config.
GrantTypesObjects ==
  UNION {{Obj(kv) : kv \in GrantEntries(ks)} :
         ks \in DistinctSeqs(GrantTypeIds, MaxGrants)}

GrantTypesInputs == {Absent} \cup GrantTypesObjects

FewGrantTypes ==
  {Obj(<<>>),
   Obj(<< <<"implicit",
            Obj(<< <<"loginEndpoint", Obj(<< <<"url", Lit("http://login")>> >>)>>,
                   <<"tokenName", Lit("tok")>> >>)>> >>),
   Obj(<< <<"authorization_code",
            Obj(<< <<"tokenEndpoint",
                     Obj(<< <<"url", Lit("http://token")>> >>)>>,
                   <<"tokenRequestEndpoint",
                     Obj(<< <<"url", Lit("http://authorize")>>,
                            <<"clientIdName", Lit("app_id")>> >>)>> >>)>> >>)}

OAuth2(scopes, grantTypes) ==
  MkObj(<< <<"type", Lit("oauth2")>>, <<"scopes", scopes>>,
           <<"grantTypes", grantTypes>> >>)

OAuth2Inputs ==
  {OAuth2(sc, gt) : sc \in ScopesInputs, gt \in FewGrantTypes} \cup
  {OAuth2(sc, gt) : sc \in FewScopes, gt \in GrantTypesInputs}

\* The authorizations that make up the named sets.
AuthInputs ==
  {Null,
   Obj(<< <<"type", Lit("digest")>> >>),
   Obj(<< <<"type", Lit("basicAuth")>> >>),
   Obj(<< <<"type", Lit("apiKey")>>, <<"passAs", Lit("header")>>,
          <<"keyname", Lit("X-Api-Key")>> >>),
   Obj(<< <<"type", Lit("apiKey")>>, <<"passAs", Lit("query")>>,
          <<"keyname", Lit("api_key")>> >>),
   Obj(<< <<"type", Lit("apiKey")>>, <<"passAs", Lit("cookie")>>,
          <<"keyname", Lit("sid")>> >>),
   Obj(<< <<"type", Lit("oauth2")>> >>),
   Obj(<< <<"type", Lit("oauth2")>>,
          <<"grantTypes", Obj(<< <<"implicit", Obj(<<>>)>> >>)>> >>)}

AuthNames == {"a", "b", "c"}

AuthorizationsObjects ==
  UNION {{Obj([i \in 1..Len(ks) |-> <<ks[i], f[i]>>]) :
            f \in [1..Len(ks) -> AuthInputs]} :
         ks \in DistinctSeqs(AuthNames, MaxAuths)}

Document(info, apis, authorizations, apiVersion) ==
  MkObj(<< <<"info", info>>, <<"apis", apis>>,
           <<"authorizations", authorizations>>,
           <<"apiVersion", apiVersion>> >>)

Documents ==
  {Document(i, a, Absent, v) :
     i \in InfoInputs, a \in FewApis, v \in VersionInputs}
  \cup
  {Document(i, a, Absent, v) :
     i \in FewInfos, a \in ApisInputs, v \in VersionInputs}
  \cup
  {Document(Absent, Absent, z, Absent) :
     z \in {Null} \cup AuthorizationsObjects}
  \cup
  {Document(Absent, Absent, Obj(<< <<"oauth", z>> >>), Absent) :
     z \in OAuth2Inputs}

(***************************************************************************)
(* One call of the exported function                                       *)
(***************************************************************************)
Init ==
  /\ resource \in Documents
  /\ pc = "call"
  /\ ramlObject = Undef

\* converter(resource) returns its ramlObject.
Return ==
  /\ pc = "call"
  /\ converter(resource) # Throw
  /\ pc' = "returned"
  /\ ramlObject' = converter(resource)
  /\ UNCHANGED resource

\* converter(resource) ends in a TypeError and returns nothing.
Raise ==
  /\ pc = "call"
  /\ converter(resource) = Throw
  /\ pc' = "threw"
  /\ UNCHANGED <<resource, ramlObject>>

Next == Return \/ Raise

Spec == Init /\ [][Next]_vars

(***************************************************************************)
(* Properties of the call                                                  *)
(***************************************************************************)
Finished == pc # "call"

Returned == pc = "returned"

info == Get(resource, "info")

apis == Get(resource, "apis")

authorizations == Get(resource, "authorizations")

apiVersion == Get(resource, "apiVersion")

EmptyDocument ==
  \A k \in {"info", "apis", "authorizations", "apiVersion"} :
    ~ HasKey(resource, k)

\* C1 (as stated): convert({}) yields a document whose only key is title,
\* set to undefined.
C1_EmptyDocumentHasUndefinedTitle ==
  (Finished /\ EmptyDocument) =>
    (Returned /\ ramlObject = Obj(<< <<"title", Undef>> >>))

\* C1 (amended): convert({}) yields a document with no keys at all; title
\* is not set, because convertInfo returns before the assignment when info
\* is absent.
C1_EmptyDocumentHasNoKeys ==
  (Finished /\ EmptyDocument) => (Returned /\ ramlObject = Obj(<<>>))

C1_Witness == Returned /\ EmptyDocument /\ resource = Obj(<<>>)

\* C2: convert never ends in an error: for every source document it returns
\* a target document.
C2_NeverRaises == pc # "threw"

RecognizedInfoKeys ==
  <<"description", "termsOfServiceUrl", "contact", "license", "licenseUrl">>

Range(q) == {q[i] : i \in 1..Len(q)}

\* The oauth2 and apiKey schemes of the returned securitySchemes.
Schemes ==
  IF HasKey(ramlObject, "securitySchemes")
    THEN {e.kv[1][2] : e \in Range(Get(ramlObject, "securitySchemes").xs)}
    ELSE {}

IsPlaceholder(v) == v \in {Undef, Str(<<>>), Obj(<<>>), Arr(<<>>)}

\* C3: every field of the output comes from a present source field: no
\* title without info.title, no resources[i].description without
\* apis[i].description, and no empty or undefined describedBy,
\* authorizationGrants, documentation or securitySchemes.
C3_AbsentSourceGivesAbsentTarget ==
  Returned =>
    /\ HasKey(ramlObject, "title") => HasKey(info, "title")
    /\ HasKey(ramlObject, "resources") =>
         \A i \in 1..Len(apis.xs) :
           HasKey(Get(ramlObject, "resources").xs[i], "description")
             => HasKey(apis.xs[i], "description")
    /\ \A k \in {"documentation", "securitySchemes"} :
         HasKey(ramlObject, k) => ~ IsPlaceholder(Get(ramlObject, k))
    /\ \A sch \in Schemes :
         /\ HasKey(sch, "describedBy")
              => ~ IsPlaceholder(Get(sch, "describedBy"))
         /\ HasKey(sch, "settings")
              => ~ IsPlaceholder(Get(Get(sch, "settings"),
                                     "authorizationGrants"))

\* C4: title (resp. version) equals info.title (resp. apiVersion) when that
\* is present, and the output has no title (resp. version) key when it is
\* falsy or absent.
C4_TitleAndVersionCopied ==
  Returned =>
    /\ Truthy(Get(info, "title")) =>
         (HasKey(ramlObject, "title")
            /\ Get(ramlObject, "title") = Get(info, "title"))
    /\ ~ Truthy(Get(info, "title")) => ~ HasKey(ramlObject, "title")
    /\ Truthy(apiVersion) =>
         (HasKey(ramlObject, "version")
            /\ Get(ramlObject, "version") = apiVersion)
    /\ ~ Truthy(apiVersion) => ~ HasKey(ramlObject, "version")

DisplayName(key) ==
  CASE key = "description"       -> Lit("Description")
    [] key = "termsOfServiceUrl" -> Lit("Terms of Service URL")
    [] key = "contact"           -> Lit("Contact")
    [] key = "license"           -> Lit("License")
    [] key = "licenseUrl"        -> Lit("License URL")

TruthyInfoKeys == {k \in Range(RecognizedInfoKeys) : Truthy(Get(info, k))}

TableIndex(key) ==
  CHOOSE i \in 1..Len(RecognizedInfoKeys) : RecognizedInfoKeys[i] = key

\* C5: documentation is there iff a recognized info key is truthy; it holds
\* one {title, content} entry per truthy recognized key, in the order of the
\* table of recognized keys whatever the order of the keys of info.
C5_DocumentationInTableOrder ==
  Returned =>
    /\ HasKey(ramlObject, "documentation") <=> TruthyInfoKeys # {}
    /\ HasKey(ramlObject, "documentation") =>
         LET doc == Get(ramlObject, "documentation").xs
         IN  /\ Len(doc) = Cardinality(TruthyInfoKeys)
             /\ \E ks \in [1..Len(doc) -> TruthyInfoKeys] :
                  /\ \A i \in 1..Len(doc) :
                       doc[i] = Obj(<< <<"title", DisplayName(ks[i])>>,
                                       <<"content", Get(info, ks[i])>> >>)
                  /\ \A i, j \in 1..Len(doc) :
                       i < j => TableIndex(ks[i]) < TableIndex(ks[j])

\* info lists two truthy recognized keys against the order of the table.
C5_Witness ==
  /\ Returned
  /\ HasKey(ramlObject, "documentation")
  /\ Len(Get(ramlObject, "documentation").xs) >= 2
  /\ \E i, j \in 1..Len(info.kv) :
       /\ i < j
       /\ info.kv[i][1] \in TruthyInfoKeys
       /\ info.kv[j][1] \in TruthyInfoKeys
       /\ TableIndex(info.kv[j][1]) < TableIndex(info.kv[i][1])

(***************************************************************************)
(* Properties of the security schemes                                      *)
(***************************************************************************)
AuthAt(i) == authorizations.kv[i][2]

SchemeAt(i) == Get(ramlObject, "securitySchemes").xs[i].kv[1][2]

TypeOf(authorization) == Get(authorization, "type")

ExpectedScheme(authorization) ==
  CASE TypeOf(authorization) = Lit("oauth2")    -> convertOAuth2(authorization)
    [] TypeOf(authorization) = Lit("apiKey")    -> convertApiKey(authorization)
    [] TypeOf(authorization) = Lit("basicAuth") -> convertBasicAuth(authorization)
    [] OTHER                                    -> Undef

\* C6: with authorizations present, securitySchemes holds one single-entry
\* mapping per authorization name, in the order of the keys, whose value is
\* what the converter of the entry's type gives; an entry of another type is
\* kept, with the value undefined.
C6_OneSchemePerAuthorization ==
  (Returned /\ Truthy(authorizations)) =>
    /\ HasKey(ramlObject, "securitySchemes")
    /\ LET schemes == Get(ramlObject, "securitySchemes").xs
       IN  /\ Len(schemes) = Len(authorizations.kv)
           /\ \A i \in 1..Len(schemes) :
                schemes[i] = Obj(<< <<authorizations.kv[i][1],
                                      ExpectedScheme(AuthAt(i))>> >>)

KnownTypes == {Lit("oauth2"), Lit("apiKey"), Lit("basicAuth")}

\* Two authorizations, the first of a type that is not known.
C6_Witness ==
  /\ Returned
  /\ Truthy(authorizations)
  /\ Len(authorizations.kv) >= 2
  /\ TypeOf(AuthAt(1)) \notin KnownTypes
  /\ TypeOf(AuthAt(2)) \in KnownTypes
  /\ SchemeAt(1) = Undef
  /\ SchemeAt(2) # Undef

\* The oauth2 authorizations of a document that was converted.
OAuth2Indices ==
  IF Returned /\ Truthy(authorizations)
    THEN {i \in 1..Len(authorizations.kv) : TypeOf(AuthAt(i)) = Lit("oauth2")}
    ELSE {}

GrantTypesAt(i) == Get(AuthAt(i), "grantTypes")

SettingsAt(i) == Get(SchemeAt(i), "settings")

GrantName(id) ==
  CASE id = "implicit"           -> Lit("token")
    [] id = "authorization_code" -> Lit("code")
    [] OTHER                     -> Undef

\* C7: authorizationGrants has one entry per key of grantTypes, in the order
\* of the keys: token for implicit, code for authorization_code and
\* undefined for any other key.
C7_OneGrantPerGrantType ==
  \A i \in OAuth2Indices :
    LET grants == Get(SettingsAt(i), "authorizationGrants").xs
        keys   == Keys(GrantTypesAt(i))
    IN  /\ Len(grants) = Len(keys)
        /\ \A j \in 1..Len(keys) : grants[j] = GrantName(keys[j])

\* An unknown grant type listed before a known one.
C7_Witness ==
  \E i \in OAuth2Indices :
    /\ Len(Keys(GrantTypesAt(i))) = 2
    /\ Keys(GrantTypesAt(i))[1] = "password"
    /\ Keys(GrantTypesAt(i))[2] = "authorization_code"
    /\ Get(SettingsAt(i), "authorizationGrants").xs[1] = Undef

ScopesAt(i) == Get(AuthAt(i), "scopes")

HasScopes(i) == ScopesAt(i).t = "array" /\ Len(ScopesAt(i).xs) > 0

Described(i) ==
  IF HasScopes(i)
    THEN SelectSeq(ScopesAt(i).xs, LAMBDA x : Truthy(Get(x, "description")))
    ELSE <<>>

\* The text of the description of a scheme; empty when there is none.
DescriptionAt(i) ==
  IF HasKey(SchemeAt(i), "description")
    THEN Get(SchemeAt(i), "description").s
    ELSE <<>>

RECURSIVE ScopeLines(_)
ScopeLines(described) ==
  IF described = <<>> THEN <<>>
  ELSE <<"* ">> \o Get(described[1], "scope").s \o <<": ">>
         \o Get(described[1], "description").s
         \o (IF Len(described) > 1
               THEN <<"\n">> \o ScopeLines(Tail(described))
               ELSE <<>>)

ScopeBlock(i) == <<"Available scopes: ", "\n\n">> \o ScopeLines(Described(i))

\* C8: with scopes non-empty, settings.scopes lists every scope name in
\* order, and when a scope has a description the description starts with
\* "Available scopes: " followed by one "* <name>: <description>" line for
\* each scope that has one; without scopes there is no settings.scopes, and
\* without a described scope there is no scope block.
C8_ScopesAndScopeBlock ==
  \A i \in OAuth2Indices :
    LET text  == DescriptionAt(i)
        block == ScopeBlock(i)
    IN  /\ HasScopes(i) =>
             /\ HasKey(SettingsAt(i), "scopes")
             /\ Get(SettingsAt(i), "scopes") =
                  Arr([j \in 1..Len(ScopesAt(i).xs) |->
                        Get(ScopesAt(i).xs[j], "scope")])
        /\ ~ HasScopes(i) => ~ HasKey(SettingsAt(i), "scopes")
        /\ Described(i) # <<>> =>
             /\ Len(text) >= Len(block)
             /\ SubSeq(text, 1, Len(block)) = block
             /\ Len(text) > Len(block) => text[Len(block) + 1] = "\n\n"
             /\ \A j \in (Len(block) + 1)..Len(text) :
                  text[j] \notin {"Available scopes: ", "* "}
        /\ Described(i) = <<>> =>
             \A j \in 1..Len(text) :
               text[j] \notin {"Available scopes: ", "* "}

\* read and write, only write described, and a further line after the block.
C8_Witness ==
  \E i \in OAuth2Indices :
    /\ HasScopes(i)
    /\ Len(ScopesAt(i).xs) = 2
    /\ Len(Described(i)) = 1
    /\ Get(SettingsAt(i), "scopes") = Arr(<<Lit("read"), Lit("write")>>)
    /\ Len(DescriptionAt(i)) > Len(ScopeBlock(i))

AuthCodeAt(i) == Get(GrantTypesAt(i), "authorization_code")

ImplicitAt(i) == Get(GrantTypesAt(i), "implicit")

\* The three overrides of the code grant, in the order of their lines.
Overrides(i) ==
  << [name    |-> Get(Get(AuthCodeAt(i), "tokenRequestEndpoint"),
                      "clientIdName"),
      default |-> Lit("client_id"),
      rest    |-> "\" as the parameter for passing the client id."],
     [name    |-> Get(Get(AuthCodeAt(i), "tokenRequestEndpoint"),
                      "clientSecretName"),
      default |-> Lit("client_secret"),
      rest    |-> "\" as the parameter for passing the client secret."],
     [name    |-> Get(Get(AuthCodeAt(i), "tokenEndpoint"), "tokenName"),
      default |-> Lit("access_code"),
      rest    |-> "\" as the parameter for passing the authorization token."] >>

Qualifying(i) ==
  SelectSeq(Overrides(i), LAMBDA o : Truthy(o.name) /\ o.name # o.default)

RECURSIVE OverrideLines(_)
OverrideLines(os) ==
  IF os = <<>> THEN <<>>
  ELSE <<"The code grant uses \"">> \o os[1].name.s \o <<os[1].rest>>
         \o (IF Len(os) > 1
               THEN <<"\n\n">> \o OverrideLines(Tail(os))
               ELSE <<>>)

OnlyCodeGrant(i) ==
  /\ Keys(GrantTypesAt(i)) = <<"authorization_code">>
  /\ Truthy(AuthCodeAt(i))
  /\ ~ HasScopes(i)

\* C9: with only an authorization_code grant and no scopes, the description
\* is one line per override (clientIdName, clientSecretName, tokenName of
\* tokenEndpoint, in that order) that is set and is not its default
\* (client_id, client_secret, access_code), naming the parameter; there is
\* no description when no override qualifies.
C9_OneLinePerOverride ==
  \A i \in OAuth2Indices :
    OnlyCodeGrant(i) =>
      /\ HasKey(SchemeAt(i), "description") <=> Qualifying(i) # <<>>
      /\ DescriptionAt(i) = OverrideLines(Qualifying(i))

\* clientIdName is app_id and nothing else is overridden.
C9_Witness ==
  \E i \in OAuth2Indices :
    /\ OnlyCodeGrant(i)
    /\ Overrides(i)[1].name = Lit("app_id")
    /\ Overrides(i)[2].name = Lit("client_secret")
    /\ Overrides(i)[3].name = Lit("access_code")
    /\ Get(SchemeAt(i), "description") =
         Str(<<"The code grant uses \"", "app_id",
               "\" as the parameter for passing the client id.">>)

LoginUrl(i) == Get(Get(ImplicitAt(i), "loginEndpoint"), "url")

\* C10: with an authorization_code grant, authorizationUri is the url of its
\* tokenRequestEndpoint, also when an implicit grant has a login url; it is
\* the login url of the implicit grant only without an authorization_code
\* grant and with that url set, and is absent otherwise.
C10_CodeGrantDecidesAuthorizationUri ==
  \A i \in OAuth2Indices :
    LET uri == Get(SettingsAt(i), "authorizationUri")
        set == HasKey(SettingsAt(i), "authorizationUri")
    IN  /\ Truthy(AuthCodeAt(i)) =>
             /\ set
             /\ uri = Get(Get(AuthCodeAt(i), "tokenRequestEndpoint"), "url")
        /\ (~ Truthy(AuthCodeAt(i)) /\ Truthy(LoginUrl(i))) =>
             (set /\ uri = LoginUrl(i))
        /\ (~ Truthy(AuthCodeAt(i)) /\ ~ Truthy(LoginUrl(i))) => ~ set
        /\ (set /\ Truthy(LoginUrl(i)) /\ uri = LoginUrl(i))
             => ~ Truthy(AuthCodeAt(i))

\* Both grants, the code grant listed first, and a login url that is lost.
C10_Witness ==
  \E i \in OAuth2Indices :
    /\ Keys(GrantTypesAt(i)) = <<"authorization_code", "implicit">>
    /\ Truthy(AuthCodeAt(i))
    /\ LoginUrl(i) = Lit("http://login")
    /\ Get(SettingsAt(i), "authorizationUri") = Lit("http://authorize")

====
